---- MODULE Spec2Model ----
(***************************************************************************)
(* FillLocalImputator (hrosailing/pipelinecomponents/imputator.py), the    *)
(* convex hull extractors of hrosailing/polardiagram/plotting.py and       *)
(* _plotting.py and of hrosailing.plotting.projections, and                *)
(* PolarDiagram._get_windspeeds and _get_wind (hrosailing/polardiagram).   *)
(*                                                                         *)
(* A table is a function from column names to equally long sequences of    *)
(* cells.  A cell is None (the empty tuple) or a one-or-more-element       *)
(* tuple: <<t>> for a timestamp of t microseconds, <<k, r>> for the value  *)
(* the input held in column k at input row r, and the tuple of a fill      *)
(* function's name and arguments for a cell written by the fill step.      *)
(* Rows are numbered from 1 (Python's row i is row i + 1 here).            *)
(***************************************************************************)
EXTENDS Integers, Sequences, FiniteSets, TLC

\* Bounds of the model.
MaxRows == 4        \* rows of a table with one data column
MaxRowsWide == 3    \* rows of a table with two data columns
MaxMinutes == 3     \* input timestamps lie on the minutes 0..MaxMinutes
MaxCalls == 2       \* impute calls on one instance

Minute == 60 * 1000000              \* in microseconds, timedelta's resolution
DefaultMaxTimeDiff == 2 * Minute    \* max_time_diff=timedelta(minutes=2)

None == <<>>
KeyOrder == <<"datetime", "x", "y">>   \* iteration order of data_dict.keys()

Abs(n) == IF n < 0 THEN -n ELSE n
Min(S) == CHOOSE m \in S : \A o \in S : m <= o
Max(S) == CHOOSE m \in S : \A o \in S : m >= o

RECURSIVE GCD(_, _)
GCD(a, b) == IF b = 0 THEN a ELSE GCD(b, a % b)

\* timedelta / timedelta: the quotient, kept as a fraction in lowest terms
\* with a positive denominator.
TrueDiv(num, den) ==
    LET g == GCD(Abs(num), Abs(den))
        s == IF den < 0 THEN -1 ELSE 1
    IN  <<(s * num) \div g, (s * den) \div g>>

\* float * timedelta for the float p / q: the product rounded to a whole
\* microsecond, halves to the even neighbour.
DivideAndRound(a, b) ==
    LET q == a \div b
        r == 2 * (a % b)
    IN  IF r > b \/ (r = b /\ q % 2 = 1) THEN q + 1 ELSE q

(***************************************************************************)
(* The Data collaborator: n_rows, n_cols, keys, strip("cols"), delete.     *)
(***************************************************************************)
Keys(d) == SelectSeq(KeyOrder, LAMBDA k : k \in DOMAIN d)
NCols(d) == Cardinality(DOMAIN d)
NRows(d) == IF DOMAIN d = {} THEN 0 ELSE Len(d[CHOOSE k \in DOMAIN d : TRUE])

WhollyAbsent(col) == \A i \in 1..Len(col) : col[i] = None

StripCols(d) == [k \in {c \in DOMAIN d : ~WhollyAbsent(d[c])} |-> d[k]]

RECURSIVE Without(_, _, _)
Without(col, rows, i) ==
    IF i > Len(col) THEN <<>>
    ELSE (IF i \in rows THEN <<>> ELSE <<col[i]>>) \o Without(col, rows, i + 1)

Delete(d, rows) == [k \in DOMAIN d |-> Without(d[k], rows, 1)]

(***************************************************************************)
(* The fill functions.  They are whatever the caller configured, so a      *)
(* written cell records the call that produced it.  _fill_before and       *)
(* _fill_after are the four-argument wrappers of __init__.                 *)
(***************************************************************************)
fill_before(name, right, mu) == <<"fill_before", name, right, mu>>
fill_between(name, left, right, mu) == <<"fill_between", name, left, right, mu>>
fill_after(name, left, mu) == <<"fill_after", name, left, mu>>

FillFun(fn, name, left, right, mu) ==
    CASE fn = "fill_before" -> fill_before(name, right, mu)
      [] fn = "fill_between" -> fill_between(name, left, right, mu)
      [] fn = "fill_after" -> fill_after(name, left, mu)

(***************************************************************************)
(* impute, the timestamp repair pass.  last_i = 0 stands for the unset     *)
(* last_dt, last_i of the first iterations.                                *)
(***************************************************************************)
Interpolate(last_dt, last_i, dt, i, j) ==
    <<last_dt[1] + DivideAndRound((dt[1] - last_dt[1]) * (j - last_i), i - last_i)>>

RECURSIVE RepairPass(_, _, _, _, _)
RepairPass(datetime, i, last_dt, last_i, mtd) ==
    IF i > Len(datetime) THEN datetime
    ELSE LET dt == datetime[i] IN
         IF dt = None THEN RepairPass(datetime, i + 1, last_dt, last_i, mtd)
         ELSE IF last_dt = None THEN RepairPass(datetime, i + 1, dt, i, mtd)
         ELSE IF Abs(dt[1] - last_dt[1]) > mtd
              THEN RepairPass(datetime, i + 1, last_dt, last_i, mtd)
         ELSE RepairPass(
                  [j \in 1..Len(datetime) |->
                      IF last_i < j /\ j < i
                      THEN Interpolate(last_dt, last_i, dt, i, j)
                      ELSE datetime[j]],
                  i + 1, dt, i, mtd)

AbsentRows(datetime) == {i \in 1..Len(datetime) : datetime[i] = None}

(***************************************************************************)
(* impute, the fill step.                                                  *)
(***************************************************************************)
RECURSIVE Indices(_, _)
Indices(col, i) ==
    IF i > Len(col) THEN <<>>
    ELSE (IF col[i] # None THEN <<i>> ELSE <<>>) \o Indices(col, i + 1)

IdxDict(d) == [k \in DOMAIN d |-> Indices(d[k], 1)]

\* RelativePosition taken from the row numbers, as the repair pass takes its
\* mu, in the place of the timestamps.
RelativePositionByRow(datetime, i, start_idx, end_idx) ==
    TrueDiv(i - start_idx, end_idx - start_idx)

RelativePositionFromFirstRow(datetime, i, start_idx, end_idx) ==
    LET duration == datetime[end_idx][1] - datetime[start_idx][1]
    IN  IF duration = 0 THEN <<0, 1>>
        ELSE TrueDiv(datetime[i][1] - datetime[1][1], duration)

RelativePositionFromEnd(datetime, i, start_idx, end_idx) ==
    LET duration == datetime[end_idx][1] - datetime[start_idx][1]
    IN  IF duration = 0 THEN <<1, 1>>
        ELSE TrueDiv(datetime[end_idx][1] - datetime[i][1], duration)

RelativePosition(datetime, i, start_idx, end_idx) ==
    LET duration == datetime[end_idx][1] - datetime[start_idx][1]
    IN  IF duration = 0 THEN <<0, 1>>
        ELSE TrueDiv(datetime[i][1] - datetime[start_idx][1], duration)

\* FillRows with the end row written as well.
FillRowsThroughEnd(start_idx, end_idx) == (start_idx + 1)..end_idx

\* The rows _fill_range writes.
FillRows(start_idx, end_idx) == (start_idx + 1)..(end_idx - 1)

\* st is the state of the fill step: the table, the fill counter, the local
\* start_idx (0 while unbound) and the exception raised ("" for none).
FillRange(st, datetime, key, start_idx, end_idx, fn) ==
    LET left == st.data[key][start_idx]
        right == st.data[key][end_idx]
        rows == FillRows(start_idx, end_idx)
    IN  [st EXCEPT
            !.data[key] = [i \in 1..Len(st.data[key]) |->
                IF i \in rows
                THEN FillFun(fn, key, left, right,
                             RelativePosition(datetime, i, start_idx, end_idx))
                ELSE st.data[key][i]],
            !.n_filled = st.n_filled + Cardinality(rows)]

\* Rows of lo..hi whose timestamp is less than mtd before the one of row ref.
NearBefore(datetime, lo, hi, ref, mtd) ==
    {i \in lo..hi : datetime[ref][1] - datetime[i][1] < mtd}

\* Rows of lo..hi whose timestamp is less than mtd after the one of row ref.
NearAfter(datetime, lo, hi, ref, mtd) ==
    {i \in lo..hi : datetime[i][1] - datetime[ref][1] < mtd}

FillFar(st, datetime, key, idx1, idx2, mtd) ==
    LET right_of_idx1 == NearAfter(datetime, idx1 + 1, idx2 - 1, idx1, mtd)
        st1 == IF right_of_idx1 # {}
               THEN FillRange(st, datetime, key, idx1, Max(right_of_idx1),
                              "fill_after")
               ELSE st
        left_of_idx2 == NearBefore(datetime, idx1 + 1, idx2 - 1, idx2, mtd)
    IN  IF left_of_idx2 # {}
        THEN FillRange(st1, datetime, key, Min(left_of_idx2), idx2, "fill_before")
        ELSE st1

RECURSIVE FillPairs(_, _, _, _, _, _)
FillPairs(st, datetime, key, idx, p, mtd) ==
    IF p >= Len(idx) THEN st
    ELSE LET idx1 == idx[p]
             idx2 == idx[p + 1]
             timediff == datetime[idx2][1] - datetime[idx1][1]
         IN  FillPairs(
                 IF timediff < mtd
                 THEN FillRange(st, datetime, key, idx1, idx2, "fill_between")
                 ELSE FillFar(st, datetime, key, idx1, idx2, mtd),
                 datetime, key, idx, p + 1, mtd)

FillLast(st, datetime, key, idx, mtd) ==
    LET near_points == NearBefore(datetime, 1, idx[1] - 1, idx[1], mtd)
    IN  IF near_points = {} THEN st
        ELSE IF st.start_idx = 0 THEN [st EXCEPT !.err = "UnboundLocalError"]
        ELSE FillRange(st, datetime, key, st.start_idx, Min(near_points),
                       "fill_after")

FillFirst(st, datetime, key, idx, mtd) ==
    LET near_points == NearBefore(datetime, 1, idx[1] - 1, idx[1], mtd)
    IN  IF idx[1] <= 1 THEN st
        ELSE IF near_points = {} THEN [st EXCEPT !.err = "ValueError"]
        ELSE FillRange([st EXCEPT !.start_idx = Min(near_points)],
                       datetime, key, Min(near_points), idx[1], "fill_before")

FillKey(st, datetime, key, idx, mtd) ==
    IF key = "datetime" THEN st
    ELSE IF idx = <<>> THEN [st EXCEPT !.err = "IndexError"]
    ELSE LET st1 == FillFirst(st, datetime, key, idx, mtd)
         IN  IF st1.err # "" THEN st1
             ELSE FillLast(FillPairs(st1, datetime, key, idx, 1, mtd),
                           datetime, key, idx, mtd)

RECURSIVE FillKeys(_, _, _, _, _, _)
FillKeys(st, datetime, keys, idx_dict, n, mtd) ==
    IF n > Len(keys) \/ st.err # "" THEN st
    ELSE FillKeys(FillKey(st, datetime, keys[n], idx_dict[keys[n]], mtd),
                  datetime, keys, idx_dict, n + 1, mtd)

\* RemoveRows with all(...) in the place of any(...).
RemoveRowsAllNone(d) ==
    {i \in 1..Len(d["datetime"]) : \A k \in DOMAIN d : d[k][i] = None}

\* Rows which still have None values.
RemoveRows(d) ==
    {i \in 1..Len(d["datetime"]) : \E k \in DOMAIN d : d[k][i] = None}

(***************************************************************************)
(* impute as a whole: what one call does to the table d, and the tables    *)
(* it passes through.  outcome is "returned" or the exception raised; data *)
(* is the table as the call leaves it (mutated in place, also when the     *)
(* call raises).                                                           *)
(***************************************************************************)
EmptyTable == [k \in {} |-> <<>>]
InitialFill(d) == [data |-> d, n_filled |-> 0, start_idx |-> 0, err |-> ""]
NoStatistics ==
    [n_removed_cols |-> -1, n_removed_rows |-> -1, n_filled_fields |-> -1,
     n_rows |-> -1, n_cols |-> -1]

\* RemovedRows with an assignment in the place of the += of the second count.
RemovedRowsOverwritten(remove_rows, still_none) == Cardinality(still_none)

\* n_removed_rows = len(remove_rows), then n_removed_rows += len(remove_rows).
RemovedRows(remove_rows, still_none) ==
    Cardinality(remove_rows) + Cardinality(still_none)

ImputeRun(d, mtd) ==
    LET stripped == StripCols(d)
        n_removed_cols == NCols(d) - NCols(stripped)
    IN  IF "datetime" \notin DOMAIN stripped
        THEN [outcome |-> "KeyError", data |-> stripped, n_filled |-> 0,
              statistics |-> NoStatistics, repaired |-> <<>>,
              before_fill |-> EmptyTable, after_fill |-> EmptyTable]
        ELSE
        LET repaired == RepairPass(stripped["datetime"], 1, None, 0, mtd)
            remove_rows == AbsentRows(repaired)
            deleted == Delete([stripped EXCEPT !["datetime"] = repaired],
                              remove_rows)
            idx_dict == IdxDict(deleted)
            st == FillKeys(InitialFill(deleted), deleted["datetime"],
                           Keys(deleted), idx_dict, 1, mtd)
        IN  IF st.err # ""
            THEN [outcome |-> st.err, data |-> st.data, n_filled |-> st.n_filled,
                  statistics |-> NoStatistics, repaired |-> repaired,
                  before_fill |-> deleted, after_fill |-> EmptyTable]
            ELSE
            LET still_none == RemoveRows(st.data)
                final == Delete(st.data, still_none)
            IN  [outcome |-> "returned", data |-> final,
                 n_filled |-> st.n_filled,
                 statistics |->
                     [n_removed_cols |-> n_removed_cols,
                      n_removed_rows |-> RemovedRows(remove_rows, still_none),
                      n_filled_fields |-> st.n_filled,
                      n_rows |-> NRows(final),
                      n_cols |-> NCols(final)],
                 repaired |-> repaired, before_fill |-> deleted,
                 after_fill |-> st.data]

(***************************************************************************)
(* The input tables.                                                       *)
(***************************************************************************)
\* The values max_time_diff is constructed with: a negative window, an empty
\* one, and positive ones.
TimeDiffs == {m * Minute : m \in -1..MaxMinutes}

Stamps == {None} \cup {<<m * Minute>> : m \in 0..MaxMinutes}

\* The columns of n rows named k: row r holds None or the value <<k, r>>.
Columns(k, n) ==
    {[r \in 1..n |-> IF r \in present THEN <<k, r>> ELSE None] :
        present \in SUBSET (1..n)}

\* A table of n rows with one data column, or with two.
Narrow(t, n) ==
    \E dt \in [1..n -> Stamps], cx \in Columns("x", n) :
        t = [datetime |-> dt, x |-> cx]

Wide(t, n) ==
    \E dt \in [1..n -> Stamps], cx \in Columns("x", n), cy \in Columns("y", n) :
        t = [datetime |-> dt, x |-> cx, y |-> cy]

(***************************************************************************)
(* The convex hull of a slice.  A slice is three sequences of one length:  *)
(* wind speeds ws, wind angles wa and boat speeds bsp.  The angles lie on  *)
(* the quarter turns 0, 90, ..., 360 degrees, where cosine and sine are    *)
(* integers, so that the projected points and every orientation test are   *)
(* exact.                                                                  *)
(***************************************************************************)
MaxPoints == 4      \* points of a slice
MaxSpeed == 2       \* boat speeds are 0..MaxSpeed

QuarterTurn == 90
HalfTurn == 180
FullTurn == 360
Angles == {a \in 0..FullTurn : a % QuarterTurn = 0}

\* np.cos and np.sin at the angles of the grid.
Cos(a) ==
    CASE a % FullTurn = 0 -> 1
      [] a % FullTurn = HalfTurn -> -1
      [] OTHER -> 0
Sin(a) ==
    CASE a % FullTurn = QuarterTurn -> 1
      [] a % FullTurn = HalfTurn + QuarterTurn -> -1
      [] OTHER -> 0

\* (bsp * cos(wa), bsp * sin(wa)), row by row.
polar_to_kartesian(wa, bsp) ==
    [i \in 1..Len(wa) |-> <<bsp[i] * Cos(wa[i]), bsp[i] * Sin(wa[i])>>]

\* Twice the signed area of the triangle o, a, b.
Cross(o, a, b) ==
    (a[1] - o[1]) * (b[2] - o[2]) - (a[2] - o[2]) * (b[1] - o[1])

Collinear(pts) ==
    \A i, j, k \in 1..Len(pts) : Cross(pts[i], pts[j], pts[k]) = 0

\* p lies on the segment from a to b, ends included.
OnSegment(p, a, b) ==
    /\ Cross(a, b, p) = 0
    /\ (p[1] - a[1]) * (p[1] - b[1]) <= 0
    /\ (p[2] - a[2]) * (p[2] - b[2]) <= 0

\* p lies in the triangle a, b, c of positive area, border included.
InTriangle(p, a, b, c) ==
    /\ Cross(a, b, c) # 0
    /\ LET d1 == Cross(a, b, p)
           d2 == Cross(b, c, p)
           d3 == Cross(c, a, p)
       IN  \/ d1 >= 0 /\ d2 >= 0 /\ d3 >= 0
           \/ d1 <= 0 /\ d2 <= 0 /\ d3 <= 0

\* p is a convex combination of points of the set Q.
InConvexHull(p, Q) ==
    \/ p \in Q
    \/ \E a, b \in Q : OnSegment(p, a, b)
    \/ \E a, b, c \in Q : InTriangle(p, a, b, c)

Sites(pts) == {pts[i] : i \in 1..Len(pts)}

\* The corners of the convex hull of the points.
ExtremeSites(pts) ==
    {p \in Sites(pts) : ~InConvexHull(p, Sites(pts) \ {p})}

\* scipy.spatial.ConvexHull(pts): it raises ValueError without points and
\* QhullError when it finds no triangle of positive area to start from.
\* Otherwise .vertices holds one index for each corner of the hull; where
\* several points lie on one corner, which of them it names is Qhull's choice.
HullError(pts) ==
    IF Len(pts) = 0 THEN "ValueError"
    ELSE IF Len(pts) < 3 \/ Collinear(pts) THEN "QhullError"
    ELSE ""

HullVertices(pts, corners) ==
    {V \in SUBSET (1..Len(pts)) :
        /\ \A i \in V : pts[i] \in corners
        /\ \A p \in corners : Cardinality({i \in V : pts[i] = p}) = 1}

ConvexHull(pts) ==
    IF HullError(pts) # ""
    THEN {[err |-> HullError(pts), vertices |-> {}]}
    ELSE UNION {{[err |-> "", vertices |-> V] : V \in HullVertices(pts, corners)} :
                   corners \in {ExtremeSites(pts)}}

\* sorted(vertices): the indices in increasing order.
RECURSIVE sorted(_)
sorted(V) ==
    IF V = {} THEN <<>>
    ELSE <<Min(V)>> \o sorted(V \ {Min(V)})

\* The indices ordered by angle; indices of one angle keep their order.
RECURSIVE SortedByAngle(_, _)
SortedByAngle(V, wa) ==
    IF V = {} THEN <<>>
    ELSE LET m == CHOOSE i \in V :
                      \A j \in V : wa[i] < wa[j] \/ (wa[i] = wa[j] /\ i <= j)
         IN  <<m>> \o SortedByAngle(V \ {m}, wa)

\* What a call of an extractor left: the function called, "returned" or the
\* exception raised, the columns returned, and the vertices Qhull named.
HullResult(fn, outcome, ws, wa, bsp, info, vertices) ==
    [fn |-> fn, outcome |-> outcome, ws |-> ws, wa |-> wa, bsp |-> bsp,
     info |-> info, vertices |-> vertices]

NoHull == HullResult("", "", <<>>, <<>>, <<>>, <<>>, {})

\* [col[i] for i in vert] with the positions 0..len(vert)-1 in the place of
\* the indices in vert.
FirstEntries(col, vert) == [k \in 1..Len(vert) |-> col[k]]

\* [col[i] for i in vert]
VertexColumn(col, vert) == [k \in 1..Len(vert) |-> col[vert[k]]]

\* xs.append(xs[-1]) in the place of xs.append(xs[0]).
ClosedWithLast(xs) == Append(xs, xs[Len(xs)])

\* xs.append(xs[0])
Closed(xs) == Append(xs, xs[1])

\* plotting._get_convex_hull(wa, bsp), given what ConvexHull did.
get_convex_hull(wa, bsp, conv) ==
    IF conv.err # ""
    THEN HullResult("_get_convex_hull", conv.err, <<>>, <<>>, <<>>, <<>>, {})
    ELSE LET vert == sorted(conv.vertices)
         IN  HullResult("_get_convex_hull", "returned", <<>>,
                        Closed(VertexColumn(wa, vert)),
                        Closed(VertexColumn(bsp, vert)), <<>>, conv.vertices)

\* _plotting._determine_convex_hull(wa, bsp), for one slice of its lists.
\* The slice is bound to wa, bsp; for 3 points and more the next statement
\* names w and b, which nothing defines.
determine_convex_hull(wa, bsp) ==
    IF Len(wa) < 3
    THEN HullResult("_determine_convex_hull", "returned", <<>>, wa, bsp,
                    <<>>, {})
    ELSE HullResult("_determine_convex_hull", "NameError", <<>>, <<>>, <<>>,
                    <<>>, {})

(***************************************************************************)
(* hrosailing.plotting.projections._get_convex_hull(slice_, info_), the    *)
(* extractor that handles the seam at 0 and 360 degrees and carries info   *)
(* along.  A returned wind speed is <<v>>, the wind speed v of a point of  *)
(* the slice, or <<u, v>>, a wind speed interpolated between u and v.      *)
(***************************************************************************)
\* SeamCase without the rule for hulls that span less than a half turn.
SeamCaseWhateverSpan(wa, vert) ==
    LET first == wa[vert[1]]
        last == wa[vert[Len(vert)]]
    IN  IF first = 0 /\ last = FullTurn THEN "none"
        ELSE IF first = 0 THEN "append"
        ELSE IF last = FullTurn THEN "prepend"
        ELSE "interpolate"

\* What is done at the seam, given the vertices in the order of their angle.
SeamCase(wa, vert) ==
    LET first == wa[vert[1]]
        last == wa[vert[Len(vert)]]
    IN  IF first = 0 /\ last = FullTurn THEN "none"
        ELSE IF last - first < HalfTurn THEN "none"
        ELSE IF first = 0 THEN "append"
        ELSE IF last = FullTurn THEN "prepend"
        ELSE "interpolate"

\* The info of a seam vertex that copies the vertex i: left unset.
SeamInfoUnset(info, i) == None

\* The info of a seam vertex that copies the vertex i: the info of i.
SeamInfo(info, i) == IF info = None THEN None ELSE info[i]

\* The seam vertex at the angle a as a copy of the vertex at the other end
\* of the hull in the place of the vertex i.
SeamCopyOfOther(ws, bsp, info, i, other, a) ==
    [ws |-> <<ws[other]>>, wa |-> a, bsp |-> bsp[other],
     info |-> SeamInfo(info, other)]

\* The seam vertex at the angle a: a copy of the vertex i, which lies at the
\* seam; other is the vertex at the other end of the hull.
SeamCopy(ws, bsp, info, i, other, a) ==
    [ws |-> <<ws[i]>>, wa |-> a, bsp |-> bsp[i], info |-> SeamInfo(info, i)]

\* Where the edge from the last vertex to the first one crosses the ray of
\* angle 0: the boat speed there.
SeamSpeed(wa, bsp, first, last) ==
    LET p == <<bsp[last] * Cos(wa[last]), bsp[last] * Sin(wa[last])>>
        q == <<bsp[first] * Cos(wa[first]), bsp[first] * Sin(wa[first])>>
    IN  IF q[2] = p[2] THEN p[1]
        ELSE (p[1] * q[2] - q[1] * p[2]) \div (q[2] - p[2])

SeamInterpolated(ws, wa, bsp, first, last, a) ==
    [ws |-> <<ws[last], ws[first]>>, wa |-> a,
     bsp |-> SeamSpeed(wa, bsp, first, last), info |-> None]

\* HullVertex with the info of the first point of the slice, whatever i is.
HullVertexFirstInfo(ws, wa, bsp, info, i) ==
    [ws |-> <<ws[i]>>, wa |-> wa[i], bsp |-> bsp[i],
     info |-> IF info = None THEN None ELSE info[1]]

HullVertex(ws, wa, bsp, info, i) ==
    [ws |-> <<ws[i]>>, wa |-> wa[i], bsp |-> bsp[i],
     info |-> IF info = None THEN None ELSE info[i]]

\* The vertices returned, seam vertices included.
WithSeam(ws, wa, bsp, info, vert) ==
    LET first == vert[1]
        last == vert[Len(vert)]
        hull == [k \in 1..Len(vert) |-> HullVertex(ws, wa, bsp, info, vert[k])]
        seam == SeamCase(wa, vert)
    IN  CASE seam = "append" ->
                 Append(hull, SeamCopy(ws, bsp, info, first, last, FullTurn))
          [] seam = "prepend" ->
                 <<SeamCopy(ws, bsp, info, last, first, 0)>> \o hull
          [] seam = "interpolate" ->
                 <<SeamInterpolated(ws, wa, bsp, first, last, 0)>> \o hull
                 \o <<SeamInterpolated(ws, wa, bsp, first, last, FullTurn)>>
          [] OTHER -> hull

Column(rows, field) == [k \in 1..Len(rows) |-> rows[k][field]]

projections_get_convex_hull(ws, wa, bsp, info, conv) ==
    LET vert == IF conv.err # ""
                THEN SortedByAngle(1..Len(wa), wa)
                ELSE SortedByAngle(conv.vertices, wa)
        rows == IF conv.err # ""
                THEN [k \in 1..Len(vert) |->
                         HullVertex(ws, wa, bsp, info, vert[k])]
                ELSE WithSeam(ws, wa, bsp, info, vert)
    IN  HullResult("projections._get_convex_hull", "returned",
                   Column(rows, "ws"), Column(rows, "wa"),
                   Column(rows, "bsp"),
                   IF info = None THEN None ELSE Column(rows, "info"),
                   conv.vertices)

(***************************************************************************)
(* PolarDiagram._get_windspeeds(ws, n_steps) for a list ws of numbers.     *)
(* n_steps is None or <<n>>; a returned wind speed is a fraction           *)
(* <<numerator, denominator>> in lowest terms.                             *)
(***************************************************************************)
MaxWinds == 3       \* entries of ws
MaxWindSpeed == 2   \* the entries of ws are 0..MaxWindSpeed
MaxSteps == 2       \* n_steps is None or -1..MaxSteps

\* np.linspace(start, stop, num): num evenly spaced values, both ends
\* included.
linspace(start, stop, num) ==
    [i \in 1..num |->
        TrueDiv(start * (num - 1) + (i - 1) * (stop - start), num - 1)]

\* np.concatenate of the linspaces of the pairs p, p + 1, ... of ws.
RECURSIVE ConcatLinspaces(_, _, _)
ConcatLinspaces(ws, p, num) ==
    IF p >= Len(ws) THEN <<>>
    ELSE linspace(ws[p], ws[p + 1], num) \o ConcatLinspaces(ws, p + 1, num)

get_windspeeds(ws, n_steps) ==
    IF n_steps = None
    THEN [outcome |-> "returned",
          value |-> [i \in 1..Len(ws) |-> TrueDiv(ws[i], 1)]]
    ELSE IF n_steps[1] <= 0
    THEN [outcome |-> "ValueError", value |-> <<>>]
    ELSE IF Len(ws) = 0
    THEN [outcome |-> "IndexError", value |-> <<>>]
    ELSE [outcome |-> "returned",
          value |-> ConcatLinspaces(ws, 1, n_steps[1] + 2)
                    \o <<TrueDiv(ws[Len(ws)], 1)>>]

NoWindspeeds == [outcome |-> "", value |-> <<>>]

(***************************************************************************)
(* PolarDiagram._get_wind(wind).  wind is [kind, value]: a tuple of        *)
(* one-dimensional arrays, or a two-dimensional ndarray given by its rows. *)
(* The result is the list of wind records <<ws, wa>>.                      *)
(***************************************************************************)
\* zip(ws.ravel(), wa.ravel()): the entries paired by position, as many as
\* the shorter array has.
zip(ws, wa) == [i \in 1..Min({Len(ws), Len(wa)}) |-> <<ws[i], wa[i]>>]

\* wind.T of an array with at least one row.
Transpose(rows) ==
    [j \in 1..Len(rows[1]) |-> [i \in 1..Len(rows) |-> rows[i][j]]]

get_wind(wind) ==
    IF wind.kind = "ndarray"
    THEN IF Len(wind.value[1]) = 2
         THEN [outcome |-> "returned", value |-> wind.value]
         ELSE IF Len(wind.value) = 2
         THEN [outcome |-> "returned", value |-> Transpose(wind.value)]
         ELSE [outcome |-> "ValueError", value |-> <<>>]
    ELSE IF wind.kind = "tuple"
    THEN IF Len(wind.value) # 2
         THEN [outcome |-> "ValueError", value |-> <<>>]
         ELSE [outcome |-> "returned",
               value |-> zip(wind.value[1], wind.value[2])]
    ELSE [outcome |-> "ValueError", value |-> <<>>]

NoWind == [kind |-> "", value |-> <<>>]
NoRecords == [outcome |-> "", value |-> <<>>]

(***************************************************************************)
(* The state: an instance of FillLocalImputator, the table it is handed,   *)
(* and what the calls made so far did.                                     *)
(***************************************************************************)
VARIABLES
    max_time_diff,  \* self._max_time_diff
    n_filled,       \* self._n_filled
    data_dict,      \* the Data object handed to impute, mutated in place
    outcomes,       \* per finished call: "returned" or the exception raised
    statistics,     \* the statistics of the latest call, if it returned
    input,          \* the table as the latest call received it
    repaired,       \* the latest call's datetime column after the repair pass
    before_fill,    \* the latest call's table when its fill step began
    after_fill,     \* the latest call's table when its fill step ended
    constructed,    \* FillLocalImputator.__init__ has run
    slice_,         \* the slice handed to a hull extractor: ws, wa, bsp
    info_,          \* the info handed along with it, or None
    hull,           \* what the extractor called on the slice left
    ws,             \* the ws handed to _get_windspeeds
    n_steps,        \* the n_steps handed to _get_windspeeds
    windspeeds,     \* what _get_windspeeds left
    wind,           \* the wind handed to _get_wind
    records         \* what _get_wind left

imputator_vars == <<max_time_diff, n_filled, data_dict, outcomes, statistics,
                    input, repaired, before_fill, after_fill, constructed>>
hull_vars == <<slice_, info_, hull>>
windspeeds_vars == <<ws, n_steps, windspeeds>>
wind_vars == <<wind, records>>

vars == <<max_time_diff, n_filled, data_dict, outcomes, statistics, input,
          repaired, before_fill, after_fill, constructed, slice_, info_,
          hull, ws, n_steps, windspeeds, wind, records>>

EmptySlice == [ws |-> <<>>, wa |-> <<>>, bsp |-> <<>>]

\* No slice is at hand and no wind speeds are asked for.
NoPlotting ==
    /\ slice_ = EmptySlice
    /\ info_ = None
    /\ hull = NoHull
    /\ ws = <<>>
    /\ n_steps = None
    /\ windspeeds = NoWindspeeds
    /\ wind = NoWind
    /\ records = NoRecords

\* No call of impute has been made yet.
NoCallYet ==
    /\ outcomes = <<>>
    /\ statistics = NoStatistics
    /\ input = EmptyTable
    /\ repaired = <<>>
    /\ before_fill = EmptyTable
    /\ after_fill = EmptyTable

\* FillLocalImputator() with the default arguments, and a table for it.
Init ==
    /\ constructed = TRUE
    /\ max_time_diff = DefaultMaxTimeDiff
    /\ n_filled = 0
    /\ \/ \E n \in 0..MaxRows : Narrow(data_dict, n)
       \/ \E n \in 0..MaxRowsWide : Wide(data_dict, n)
    /\ NoCallYet
    /\ NoPlotting

\* __init__(fill_before, fill_between, fill_after, max_time_diff): stores
\* its arguments and zeroes the counter; it examines none of them.
Construct ==
    /\ ~constructed
    /\ constructed' = TRUE
    /\ max_time_diff' \in TimeDiffs
    /\ n_filled' = 0
    /\ UNCHANGED <<data_dict, outcomes, statistics, input, repaired,
                   before_fill, after_fill>>
    /\ UNCHANGED <<hull_vars, windspeeds_vars, wind_vars>>

\* The counter as a call finds it, left as it is.
KeptCounter(n) == n

\* self._n_filled = 0, the first statement of impute.
ResetCounter(n) == 0

\* impute(data_dict): the counter is reset, the call runs and every write
\* of its fill step adds one to the counter, which the statistics report.
Impute ==
    /\ constructed
    /\ Len(outcomes) < MaxCalls
    /\ \E run \in {ImputeRun(data_dict, max_time_diff)} :
           /\ data_dict' = run.data
           /\ n_filled' = ResetCounter(n_filled) + run.n_filled
           /\ outcomes' = Append(outcomes, run.outcome)
           /\ statistics' =
                  IF run.outcome = "returned"
                  THEN [run.statistics EXCEPT
                           !.n_filled_fields =
                               ResetCounter(n_filled) + run.n_filled]
                  ELSE run.statistics
           /\ input' = data_dict
           /\ repaired' = run.repaired
           /\ before_fill' = run.before_fill
           /\ after_fill' = run.after_fill
    /\ UNCHANGED <<max_time_diff, constructed>>
    /\ UNCHANGED <<hull_vars, windspeeds_vars, wind_vars>>

Next == Impute

Spec == Init /\ [][Next]_vars

\* The tables the class is written for: "the data has been stored
\* chronologically", the present timestamps never decrease down the rows.
Chronological(datetime) ==
    \A i, j \in 1..Len(datetime) :
        (i < j /\ datetime[i] # None /\ datetime[j] # None) =>
            datetime[i][1] <= datetime[j][1]

InitChronological == Init /\ Chronological(data_dict["datetime"])

SpecChronological == InitChronological /\ [][Next]_vars

\* Longer tables of one data column in which every timestamp is present,
\* in chronological order.
MaxRowsLong == 5

InitLong ==
    /\ constructed = TRUE
    /\ max_time_diff = DefaultMaxTimeDiff
    /\ n_filled = 0
    /\ \E n \in 0..MaxRowsLong :
           \E dt \in [1..n -> Stamps \ {None}], cx \in Columns("x", n) :
               /\ Chronological(dt)
               /\ data_dict = [datetime |-> dt, x |-> cx]
    /\ NoCallYet
    /\ NoPlotting

SpecLong == InitLong /\ [][Next]_vars

\* Tables that lack the "datetime" column: one data column, or two.
NoDatetime(t, n) ==
    \/ \E cx \in Columns("x", n) : t = [x |-> cx]
    \/ \E cx \in Columns("x", n), cy \in Columns("y", n) :
           t = [x |-> cx, y |-> cy]

InitMalformed ==
    /\ constructed = TRUE
    /\ max_time_diff = DefaultMaxTimeDiff
    /\ n_filled = 0
    /\ \E n \in 0..MaxRows : NoDatetime(data_dict, n)
    /\ NoCallYet
    /\ NoPlotting

SpecMalformed == InitMalformed /\ [][Next]_vars

\* An instance still to be constructed, with any of the windows, and a
\* chronological table for it.
InitUnconstructed ==
    /\ constructed = FALSE
    /\ max_time_diff = DefaultMaxTimeDiff
    /\ n_filled = 0
    /\ \E n \in 0..MaxRowsWide : Narrow(data_dict, n)
    /\ Chronological(data_dict["datetime"])
    /\ NoCallYet
    /\ NoPlotting

NextConfigured == Construct \/ Impute

SpecConfigured == InitUnconstructed /\ [][NextConfigured]_vars

(***************************************************************************)
(* The hull extractors, each called once on a slice.                       *)
(***************************************************************************)
\* No imputator is at work.
NoImputator ==
    /\ constructed = FALSE
    /\ max_time_diff = DefaultMaxTimeDiff
    /\ n_filled = 0
    /\ data_dict = EmptyTable
    /\ NoCallYet

AngleSorted(wa) == \A i, j \in 1..Len(wa) : i < j => wa[i] <= wa[j]

\* A slice of n points; its wind speeds are 1, 2, ..., n.
SliceOf(n, wa, bsp) == [ws |-> [i \in 1..n |-> i], wa |-> wa, bsp |-> bsp]

\* The info of the points of a slice: one value for each point.
InfoOf(n) == [i \in 1..n |-> <<"info", i>>]

\* Slices in any order of their points.
InitHullAnyOrder ==
    /\ NoImputator
    /\ \E n \in 0..MaxPoints :
           \E wa \in [1..n -> Angles], bsp \in [1..n -> 0..MaxSpeed] :
               slice_ = SliceOf(n, wa, bsp)
    /\ info_ = None
    /\ hull = NoHull
    /\ ws = <<>>
    /\ n_steps = None
    /\ windspeeds = NoWindspeeds
    /\ wind = NoWind
    /\ records = NoRecords

\* Slices sorted by angle, as _sort_data and get_slices hand them over.
InitHull == InitHullAnyOrder /\ AngleSorted(slice_.wa)

GetConvexHull ==
    /\ hull = NoHull
    /\ \E conv \in ConvexHull(polar_to_kartesian(slice_.wa, slice_.bsp)) :
           hull' = get_convex_hull(slice_.wa, slice_.bsp, conv)
    /\ info_' = None
    /\ UNCHANGED <<slice_, imputator_vars, windspeeds_vars, wind_vars>>

DetermineConvexHull ==
    /\ hull = NoHull
    /\ hull' = determine_convex_hull(slice_.wa, slice_.bsp)
    /\ info_' = None
    /\ UNCHANGED <<slice_, imputator_vars, windspeeds_vars, wind_vars>>

ProjectionsGetConvexHull ==
    /\ hull = NoHull
    /\ \E conv \in ConvexHull(polar_to_kartesian(slice_.wa, slice_.bsp)) :
           \E info \in {None, InfoOf(Len(slice_.wa))} :
               /\ info_' = info
               /\ hull' = projections_get_convex_hull(
                               slice_.ws, slice_.wa, slice_.bsp, info, conv)
    /\ UNCHANGED <<slice_, imputator_vars, windspeeds_vars, wind_vars>>

NextHull == GetConvexHull \/ DetermineConvexHull

SpecHull == InitHull /\ [][NextHull]_vars

SpecHullAnyOrder == InitHullAnyOrder /\ [][NextHull]_vars

NextProjections == ProjectionsGetConvexHull

SpecProjections == InitHull /\ [][NextProjections]_vars

(***************************************************************************)
(* _get_windspeeds, called once on a list of wind speeds.                  *)
(***************************************************************************)
InitWindspeeds ==
    /\ NoImputator
    /\ slice_ = EmptySlice
    /\ info_ = None
    /\ hull = NoHull
    /\ \E k \in 0..MaxWinds : ws \in [1..k -> 0..MaxWindSpeed]
    /\ n_steps \in {None} \cup {<<n>> : n \in -1..MaxSteps}
    /\ windspeeds = NoWindspeeds
    /\ wind = NoWind
    /\ records = NoRecords

GetWindspeeds ==
    /\ windspeeds = NoWindspeeds
    /\ windspeeds' = get_windspeeds(ws, n_steps)
    /\ UNCHANGED <<ws, n_steps, imputator_vars, hull_vars, wind_vars>>

NextWindspeeds == GetWindspeeds

SpecWindspeeds == InitWindspeeds /\ [][NextWindspeeds]_vars

(***************************************************************************)
(* _get_wind, called once on a wind specification: a tuple of one or two   *)
(* arrays of up to MaxWinds entries, or an ndarray of up to 2 x 2.         *)
(***************************************************************************)
Arrays(values) == UNION {[1..k -> values] : k \in 0..MaxWinds}

Winds ==
    {[kind |-> "tuple", value |-> <<w, a>>] :
        w \in Arrays(0..MaxWindSpeed), a \in Arrays(Angles)}
    \cup {[kind |-> "tuple", value |-> <<w>>] : w \in Arrays(0..MaxWindSpeed)}
    \cup {[kind |-> "ndarray", value |-> rows] :
            rows \in UNION {[1..r -> [1..c -> 0..MaxWindSpeed]] :
                               r \in 1..2, c \in 1..2}}
    \cup {[kind |-> "list", value |-> <<>>]}

InitWind ==
    /\ NoImputator
    /\ slice_ = EmptySlice
    /\ info_ = None
    /\ hull = NoHull
    /\ ws = <<>>
    /\ n_steps = None
    /\ windspeeds = NoWindspeeds
    /\ wind \in Winds
    /\ records = NoRecords

GetWind ==
    /\ records = NoRecords
    /\ records' = get_wind(wind)
    /\ UNCHANGED <<wind, imputator_vars, hull_vars, windspeeds_vars>>

NextWind == GetWind

SpecWind == InitWind /\ [][NextWind]_vars

Returned == outcomes # <<>> /\ outcomes[Len(outcomes)] = "returned"

\* The latest call ran its fill step to the end.
FillDone == Returned

\* The latest call ran its repair pass (it found a datetime column).
RepairDone ==
    /\ outcomes # <<>>
    /\ outcomes[Len(outcomes)] # "KeyError"

DataKeys(d) == DOMAIN d \ {"datetime"}
Stamp(datetime, i) == datetime[i][1]

\* mu is the fraction num / den in lowest terms, or 0 when den = 0.
MuIs(mu, num, den) ==
    IF den = 0 THEN mu = <<0, 1>>
    ELSE /\ mu[2] > 0
         /\ mu[1] * den = mu[2] * num
         /\ GCD(Abs(mu[1]), mu[2]) = 1

IsFillBefore(cell, name, right) ==
    Len(cell) = 4 /\ cell[1] = "fill_before" /\ cell[2] = name /\ cell[3] = right
IsFillAfter(cell, name, left) ==
    Len(cell) = 4 /\ cell[1] = "fill_after" /\ cell[2] = name /\ cell[3] = left
IsFillBetween(cell, name, left, right) ==
    /\ Len(cell) = 5
    /\ cell[1] = "fill_between"
    /\ cell[2] = name
    /\ cell[3] = left
    /\ cell[4] = right

(***************************************************************************)
(* C1.  After impute returns, no cell of the returned table, in any column *)
(* and any row, is None.                                                   *)
(***************************************************************************)
NoAbsenceAfterImpute ==
    Returned =>
        \A k \in DOMAIN data_dict :
            \A i \in 1..Len(data_dict[k]) : data_dict[k][i] # None

\* A call that returned rows after deleting some and filling some cells.
NoAbsenceWitness ==
    /\ Returned
    /\ statistics.n_removed_rows > 0
    /\ statistics.n_filled_fields > 0
    /\ statistics.n_rows > 0
    /\ \E i \in 1..Len(input["datetime"]) : input["datetime"][i] = None

(***************************************************************************)
(* C2.  Idempotence: when a call returned, the next call on the returned   *)
(* table returns as well, leaves the table as it was and reports           *)
(* n_removed_cols = n_removed_rows = n_filled_fields = 0.                  *)
(***************************************************************************)
SecondCallChangesNothing ==
    (Len(outcomes) >= 2 /\ outcomes[Len(outcomes) - 1] = "returned") =>
        /\ Returned
        /\ data_dict = input
        /\ statistics.n_removed_cols = 0
        /\ statistics.n_removed_rows = 0
        /\ statistics.n_filled_fields = 0

(***************************************************************************)
(* C3.  Repair pass: an absent timestamp at row j whose nearest present    *)
(* timestamps, at rows a < j < b, are less than max_time_diff apart        *)
(* becomes t_a + ((j - a)/(b - a)) * (t_b - t_a), wherever the pair lies   *)
(* in the table.                                                           *)
(***************************************************************************)
Present(datetime) == {i \in 1..Len(datetime) : datetime[i] # None}
PresentBefore(datetime, j) == {a \in Present(datetime) : a < j}
PresentAfter(datetime, j) == {b \in Present(datetime) : b > j}

\* Row j lies in a run of absent timestamps between two present timestamps
\* that are less than mtd apart.
InCloseGap(datetime, j, mtd) ==
    /\ datetime[j] = None
    /\ PresentBefore(datetime, j) # {}
    /\ PresentAfter(datetime, j) # {}
    /\ Abs(Stamp(datetime, Min(PresentAfter(datetime, j)))
           - Stamp(datetime, Max(PresentBefore(datetime, j)))) < mtd

EveryCloseGapInterpolated ==
    RepairDone =>
        \A j \in 1..Len(input["datetime"]) :
            InCloseGap(input["datetime"], j, max_time_diff) =>
                LET a == Max(PresentBefore(input["datetime"], j))
                    b == Min(PresentAfter(input["datetime"], j))
                IN  repaired[j] = Interpolate(input["datetime"][a], a,
                                              input["datetime"][b], b, j)

(***************************************************************************)
(* C4.  A run of absent timestamps that is not bounded on both sides by    *)
(* present timestamps less than max_time_diff apart is left absent by the  *)
(* repair pass, and its rows are deleted and counted in n_removed_rows.    *)
(***************************************************************************)
OpenGapRows(datetime, mtd) ==
    {j \in 1..Len(datetime) :
        datetime[j] = None /\ ~InCloseGap(datetime, j, mtd)}

OpenGapsLeftAbsentAndDeleted ==
    RepairDone =>
        LET open == OpenGapRows(input["datetime"], max_time_diff)
        IN  /\ \A j \in open : repaired[j] = None
            /\ Returned => statistics.n_removed_rows >= Cardinality(open)

(***************************************************************************)
(* C5.  Before the first anchor, at row f > 1 of a data column: with s the *)
(* earliest row whose timestamp is within max_time_diff of t_f, every row  *)
(* i of s..f-1 is set to fill_before(name, value at f,                     *)
(* (t_i - t_s)/(t_f - t_s)) and the rows before s stay absent.             *)
(***************************************************************************)
FirstAnchor(col) == Min(Present(col))

SpanBeforeFirstAnchorFilled ==
    FillDone =>
        \A k \in DataKeys(before_fill) :
            LET datetime == before_fill["datetime"]
                f == FirstAnchor(before_fill[k])
                near == NearBefore(datetime, 1, f - 1, f, max_time_diff)
            IN  (f > 1 /\ near # {}) =>
                    LET s == Min(near) IN
                    /\ \A i \in s..(f - 1) :
                        /\ IsFillBefore(after_fill[k][i], k, before_fill[k][f])
                        /\ MuIs(after_fill[k][i][4],
                                Stamp(datetime, i) - Stamp(datetime, s),
                                Stamp(datetime, f) - Stamp(datetime, s))
                    /\ \A i \in 1..(s - 1) : after_fill[k][i] = None

(***************************************************************************)
(* C6.  Between consecutive anchors a < b of a data column with            *)
(* t_b - t_a < max_time_diff, every row i of a+1..b-1 is set to            *)
(* fill_between(name, value at a, value at b, (t_i - t_a)/(t_b - t_a)).    *)
(***************************************************************************)
\* The pairs of consecutive anchors of a column.
AnchorPairs(col) ==
    {<<a, b>> \in Present(col) \X Present(col) :
        a < b /\ \A i \in (a + 1)..(b - 1) : col[i] = None}

CloseAnchorsFilledBetween ==
    FillDone =>
        \A k \in DataKeys(before_fill) :
            \A pair \in AnchorPairs(before_fill[k]) :
                LET datetime == before_fill["datetime"]
                    a == pair[1]
                    b == pair[2]
                IN  Stamp(datetime, b) - Stamp(datetime, a) < max_time_diff =>
                        \A i \in (a + 1)..(b - 1) :
                            /\ IsFillBetween(after_fill[k][i], k,
                                             before_fill[k][a], before_fill[k][b])
                            /\ MuIs(after_fill[k][i][5],
                                    Stamp(datetime, i) - Stamp(datetime, a),
                                    Stamp(datetime, b) - Stamp(datetime, a))

\* A fill between two anchors at different times, of a row strictly inside
\* the time span, which is still in the returned table.
CloseAnchorsWitness ==
    /\ FillDone
    /\ statistics.n_rows >= 3
    /\ \E k \in DataKeys(before_fill) :
        \E pair \in AnchorPairs(before_fill[k]) :
            LET datetime == before_fill["datetime"]
                a == pair[1]
                b == pair[2]
            IN  /\ Stamp(datetime, b) - Stamp(datetime, a) < max_time_diff
                /\ \E i \in (a + 1)..(b - 1) :
                    /\ Stamp(datetime, a) < Stamp(datetime, i)
                    /\ Stamp(datetime, i) < Stamp(datetime, b)
                    /\ after_fill[k][i] \in
                           {data_dict[k][r] : r \in 1..Len(data_dict[k])}

(***************************************************************************)
(* C7.  Between consecutive anchors a < b of a data column that are not    *)
(* closer than max_time_diff: a row of a+1..b-1 less than max_time_diff    *)
(* after t_a is set by fill_after with the value at a, a row less than     *)
(* max_time_diff before t_b is set by fill_before with the value at b (a   *)
(* row in range of both by either), and the other rows stay absent.        *)
(***************************************************************************)
FarAnchorsFilledOnBothSides ==
    FillDone =>
        \A k \in DataKeys(before_fill) :
            \A pair \in AnchorPairs(before_fill[k]) :
                LET datetime == before_fill["datetime"]
                    a == pair[1]
                    b == pair[2]
                IN  Stamp(datetime, b) - Stamp(datetime, a) >= max_time_diff =>
                    \A i \in (a + 1)..(b - 1) :
                        LET cell == after_fill[k][i]
                            after_a == i \in NearAfter(datetime, i, i, a,
                                                       max_time_diff)
                            before_b == i \in NearBefore(datetime, i, i, b,
                                                         max_time_diff)
                            by_after == IsFillAfter(cell, k, before_fill[k][a])
                            by_before == IsFillBefore(cell, k, before_fill[k][b])
                        IN  /\ (after_a /\ ~before_b) => by_after
                            /\ (before_b /\ ~after_a) => by_before
                            /\ (after_a /\ before_b) => (by_after \/ by_before)
                            /\ (~after_a /\ ~before_b) => cell = None

(***************************************************************************)
(* C8.  After the last anchor, at a row l of a data column that is not the *)
(* last row: every later row whose timestamp is less than max_time_diff    *)
(* after t_l is set by fill_after with the value at l.                     *)
(***************************************************************************)
LastAnchor(col) == Max(Present(col))

SpanAfterLastAnchorFilled ==
    FillDone =>
        \A k \in DataKeys(before_fill) :
            LET datetime == before_fill["datetime"]
                l == LastAnchor(before_fill[k])
            IN  \A i \in NearAfter(datetime, l + 1, Len(datetime), l,
                                   max_time_diff) :
                    IsFillAfter(after_fill[k][i], k, before_fill[k][l])

(***************************************************************************)
(* C9.  When the timestamps of every two distinct rows differ by more than *)
(* max_time_diff, impute returns with n_filled_fields = 0, interpolates no *)
(* timestamp, and returns exactly the input rows that have no absent cell  *)
(* in the columns that are not wholly absent.                              *)
(***************************************************************************)
AllRowsFarApart(d, mtd) ==
    /\ "datetime" \in DOMAIN d
    /\ Len(d["datetime"]) >= 2
    /\ \A i \in 1..Len(d["datetime"]) : d["datetime"][i] # None
    /\ \A i, j \in 1..Len(d["datetime"]) :
        i # j => Abs(Stamp(d["datetime"], i) - Stamp(d["datetime"], j)) > mtd

FarApartRowsOnlyDeleted ==
    (outcomes # <<>> /\ AllRowsFarApart(input, max_time_diff)) =>
        /\ Returned
        /\ statistics.n_filled_fields = 0
        /\ repaired = input["datetime"]
        /\ LET kept == StripCols(input)
           IN  data_dict =
                   [k \in DOMAIN kept |->
                       Without(kept[k],
                               {i \in 1..Len(kept[k]) :
                                   \E c \in DOMAIN kept : kept[c][i] = None},
                               1)]

(***************************************************************************)
(* C10.  On return n_rows and n_cols are the returned table's dimensions,  *)
(* n_cols_before - n_removed_cols = n_cols and n_rows_before -             *)
(* n_removed_rows = n_rows with both removal counts >= 0, and              *)
(* n_removed_cols is the number of wholly absent input columns.            *)
(***************************************************************************)
StatisticsMatchTable ==
    Returned =>
        /\ statistics.n_rows = Len(data_dict["datetime"])
        /\ \A k \in DOMAIN data_dict : Len(data_dict[k]) = statistics.n_rows
        /\ statistics.n_cols = Cardinality(DOMAIN data_dict)
        /\ Cardinality(DOMAIN input) - statistics.n_removed_cols
               = statistics.n_cols
        /\ Len(input["datetime"]) - statistics.n_removed_rows
               = statistics.n_rows
        /\ statistics.n_removed_cols >= 0
        /\ statistics.n_removed_rows >= 0
        /\ statistics.n_removed_cols
               = Cardinality({k \in DOMAIN input :
                                \A i \in 1..Len(input[k]) : input[k][i] = None})

\* A return with rows left, after rows without a timestamp were removed and
\* rows with a cell left unfilled were removed.
StatisticsWitness ==
    /\ Returned
    /\ statistics.n_rows > 0
    /\ Len(before_fill["datetime"]) < Len(input["datetime"])
    /\ Len(data_dict["datetime"]) < Len(after_fill["datetime"])

(***************************************************************************)
(* C11.  A call of impute on a table without a "datetime" column ends in   *)
(* an error of its own kind for invalid input: it does not return, and it  *)
(* does not end in the lookup or index error of a statement that happened  *)
(* to touch the missing column.                                            *)
(***************************************************************************)
IncidentalErrors ==
    {"KeyError", "IndexError", "ValueError", "UnboundLocalError"}

MalformedInputReported ==
    (outcomes # <<>> /\ "datetime" \notin DOMAIN input) =>
        outcomes[Len(outcomes)] \notin IncidentalErrors \cup {"returned"}

(***************************************************************************)
(* C12.  No instance exists whose max_time_diff is zero or negative:       *)
(* construction with such a window is rejected.                            *)
(***************************************************************************)
NonPositiveWindowRejected == constructed => max_time_diff > 0

(***************************************************************************)
(* The hull extractors: notions the properties below are stated with.     *)
(***************************************************************************)
SrcExtractors == {"_get_convex_hull", "_determine_convex_hull"}
CalledSrcExtractor == hull.fn \in SrcExtractors
CalledProjections == hull.fn = "projections._get_convex_hull"

Projected == polar_to_kartesian(slice_.wa, slice_.bsp)

\* The number of points (angle, speed) equal to the i-th of wa, bsp.
Count(wa, bsp, a, r) ==
    Cardinality({k \in 1..Len(wa) : wa[k] = a /\ bsp[k] = r})

\* The returned points are the points of the slice, sorted by angle.
ReturnedSliceSorted ==
    /\ hull.outcome = "returned"
    /\ Len(hull.wa) = Len(slice_.wa)
    /\ Len(hull.bsp) = Len(slice_.wa)
    /\ \A a \in Angles, r \in 0..MaxSpeed :
           Count(hull.wa, hull.bsp, a, r) = Count(slice_.wa, slice_.bsp, a, r)
    /\ AngleSorted(hull.wa)

(***************************************************************************)
(* C13.  The extractor called on a slice of 0, 1 or 2 points returns,      *)
(* without raising, exactly the points of the slice, ordered by angle and  *)
(* with nothing added (for 0 points: empty columns).                       *)
(***************************************************************************)
FewPointsReturnedSorted ==
    (hull.fn = "_determine_convex_hull" /\ Len(slice_.wa) < 3) =>
        ReturnedSliceSorted

(***************************************************************************)
(* C14.  When ConvexHull fails on a slice of 3 or more points (they are    *)
(* collinear or coincident), the extractor returns the points of the slice *)
(* sorted by angle, and no exception reaches the caller.                   *)
(***************************************************************************)
FailedHullReturnsSlice ==
    (/\ CalledSrcExtractor
     /\ Len(slice_.wa) >= 3
     /\ HullError(Projected) # "") => ReturnedSliceSorted

(***************************************************************************)
(* C15.  The angles of the hull's vertices never decrease along the output *)
(* of an extractor, whatever the order of the points in the slice; a       *)
(* vertex that repeats the first one at the end to close the polygon is    *)
(* left out of account.                                                    *)
(***************************************************************************)
WithoutClosing(wa, bsp) ==
    IF /\ Len(wa) >= 2
       /\ wa[Len(wa)] = wa[1]
       /\ bsp[Len(bsp)] = bsp[1]
    THEN SubSeq(wa, 1, Len(wa) - 1)
    ELSE wa

VerticesOrderedByAngle ==
    (/\ CalledSrcExtractor
     /\ hull.outcome = "returned"
     /\ HullError(Projected) = "") =>
        AngleSorted(WithoutClosing(hull.wa, hull.bsp))

HullOrder == SortedByAngle(hull.vertices, slice_.wa)
HullSpan ==
    Max({slice_.wa[i] : i \in hull.vertices})
    - Min({slice_.wa[i] : i \in hull.vertices})
VertexAt(a) == \E i \in hull.vertices : slice_.wa[i] = a

\* The output row k has the wind speed and boat speed of the point i.
RowIsPoint(k, i) ==
    /\ hull.ws[k] = <<slice_.ws[i]>>
    /\ hull.bsp[k] = slice_.bsp[i]

SeamVertexAdded ==
    (CalledProjections /\ hull.vertices # {}) =>
        LET n == Len(hull.wa)
        IN  /\ (HullSpan > HalfTurn /\ VertexAt(0) /\ ~VertexAt(FullTurn)) =>
                /\ n = Cardinality(hull.vertices) + 1
                /\ hull.wa[n] = FullTurn
                /\ \E i \in hull.vertices :
                       slice_.wa[i] = 0 /\ RowIsPoint(n, i)
            /\ (HullSpan > HalfTurn /\ VertexAt(FullTurn) /\ ~VertexAt(0)) =>
                /\ n = Cardinality(hull.vertices) + 1
                /\ hull.wa[1] = 0
                /\ \E i \in hull.vertices :
                       slice_.wa[i] = FullTurn /\ RowIsPoint(1, i)
            /\ \E corners \in {ExtremeSites(Projected)} :
                   \A i \in 1..Len(slice_.wa) :
                       Projected[i] \notin corners =>
                           \A k \in 1..n : hull.ws[k] # <<slice_.ws[i]>>

\* A hull with a vertex at 0 degrees, spanning more than 180, of a slice
\* with a point inside the hull: the seam vertex was appended.
SeamVertexWitness ==
    /\ CalledProjections
    /\ hull.vertices # {}
    /\ HullSpan > HalfTurn
    /\ VertexAt(0)
    /\ ~VertexAt(FullTurn)
    /\ hull.wa[Len(hull.wa)] = FullTurn
    /\ \E corners \in {ExtremeSites(Projected)} :
           \E i \in 1..Len(slice_.wa) : Projected[i] \notin corners

(***************************************************************************)
(* C18.  As specified: when info is handed in, a seam vertex added as the  *)
(* duplicate of the vertex at 0 or at 360 degrees carries None as info.    *)
(***************************************************************************)
SeamAppended ==
    /\ CalledProjections
    /\ hull.vertices # {}
    /\ SeamCase(slice_.wa, HullOrder) = "append"
SeamPrepended ==
    /\ CalledProjections
    /\ hull.vertices # {}
    /\ SeamCase(slice_.wa, HullOrder) = "prepend"

SeamDuplicateInfoUnset ==
    info_ # None =>
        /\ SeamAppended => hull.info[Len(hull.info)] = None
        /\ SeamPrepended => hull.info[1] = None

(***************************************************************************)
(* C18, amended.  When info is handed in, a seam vertex added as the       *)
(* duplicate of the vertex at 0 or at 360 degrees carries the info of the  *)
(* vertex it duplicates.                                                   *)
(***************************************************************************)
SeamDuplicateCarriesInfo ==
    info_ # None =>
        /\ SeamAppended =>
               \E i \in hull.vertices :
                   /\ slice_.wa[i] = 0
                   /\ RowIsPoint(Len(hull.wa), i)
                   /\ hull.info[Len(hull.info)] = info_[i]
        /\ SeamPrepended =>
               \E i \in hull.vertices :
                   /\ slice_.wa[i] = FullTurn
                   /\ RowIsPoint(1, i)
                   /\ hull.info[1] = info_[i]

SeamDuplicateWitness ==
    /\ info_ # None
    /\ SeamAppended
    /\ Len(hull.info) = Cardinality(hull.vertices) + 1

(***************************************************************************)
(* C19.  Every point of the slice, projected to (r cos a, r sin a), lies   *)
(* in the convex polygon whose corners are the projections of the          *)
(* vertices an extractor returned.                                         *)
(***************************************************************************)
HullContainsSlice ==
    (CalledSrcExtractor /\ hull.outcome = "returned") =>
        \E corners \in {Sites(polar_to_kartesian(hull.wa, hull.bsp))} :
            \A i \in 1..Len(slice_.wa) : InConvexHull(Projected[i], corners)

\* A hull was returned for a slice with a point that is no corner of it.
HullContainsWitness ==
    /\ hull.fn = "_get_convex_hull"
    /\ hull.outcome = "returned"
    /\ \E corners \in {ExtremeSites(Projected)} :
           \E i \in 1..Len(slice_.wa) : Projected[i] \notin corners

(***************************************************************************)
(* C20.  _get_windspeeds with n_steps = n > 0 and ws = [w_1, ..., w_k]     *)
(* returns k + n*(k-1) values: each w_p once, in order, and between w_p    *)
(* and w_(p+1) the n values w_p + j*(w_(p+1) - w_p)/(n+1), j = 1..n.       *)
(***************************************************************************)
Subdivided(w, n) ==
    [q \in 1..(Len(w) + n * (Len(w) - 1)) |->
        LET p == ((q - 1) \div (n + 1)) + 1
            j == (q - 1) % (n + 1)
        IN  IF p = Len(w) THEN TrueDiv(w[p], 1)
            ELSE TrueDiv(w[p] * (n + 1) + j * (w[p + 1] - w[p]), n + 1)]

WindspeedsSubdivided ==
    (/\ windspeeds # NoWindspeeds
     /\ n_steps # None
     /\ Len(ws) >= 1) =>
        (n_steps[1] > 0 =>
            /\ windspeeds.outcome = "returned"
            /\ windspeeds.value = Subdivided(ws, n_steps[1]))

(***************************************************************************)
(* C21.  _get_wind, given wind as a tuple (ws, wa) of two arrays, produces *)
(* one wind record <<ws_i, wa_j>> for every combination of an entry of ws  *)
(* with an entry of wa: Len(ws) * Len(wa) records.                         *)
(***************************************************************************)
WindTuple == wind.kind = "tuple" /\ Len(wind.value) = 2

AllCombinations(w, a) ==
    {<<w[i], a[j]>> : i \in 1..Len(w), j \in 1..Len(a)}

WindRecordsAreAllCombinations ==
    (WindTuple /\ records # NoRecords)
        => /\ records.outcome = "returned"
           /\ Len(records.value) = Len(wind.value[1]) * Len(wind.value[2])
           /\ {records.value[k] : k \in 1..Len(records.value)}
                  = AllCombinations(wind.value[1], wind.value[2])

(***************************************************************************)
(* C22.  Two timestamps exactly max_time_diff apart are not close in any   *)
(* pass of impute: no absent timestamp between them is interpolated,       *)
(* fill_between is not applied across them, and no fill_before or          *)
(* fill_after window reaches a row exactly max_time_diff from its anchor.  *)
(***************************************************************************)
\* The row of column col that holds the value v.
RowOf(col, v) == CHOOSE r \in 1..Len(col) : col[r] = v

ExactlyApartNotInterpolated ==
    RepairDone =>
        \A pair \in AnchorPairs(input["datetime"]) :
            Abs(Stamp(input["datetime"], pair[2])
                - Stamp(input["datetime"], pair[1])) = max_time_diff
                => \A j \in (pair[1] + 1)..(pair[2] - 1) : repaired[j] = None

ExactlyApartNotFilledBetween ==
    FillDone =>
        \A k \in DataKeys(before_fill) :
            \A pair \in AnchorPairs(before_fill[k]) :
                Abs(Stamp(before_fill["datetime"], pair[2])
                    - Stamp(before_fill["datetime"], pair[1])) = max_time_diff
                    => \A i \in (pair[1] + 1)..(pair[2] - 1) :
                           after_fill[k][i] = None
                           \/ after_fill[k][i][1] # "fill_between"

ExactlyApartOutsideWindow ==
    FillDone =>
        \A k \in DataKeys(before_fill) :
            \A i \in 1..Len(before_fill[k]) :
                (/\ before_fill[k][i] = None
                 /\ after_fill[k][i] # None
                 /\ after_fill[k][i][1] \in {"fill_before", "fill_after"})
                    => Abs(Stamp(before_fill["datetime"], i)
                           - Stamp(before_fill["datetime"],
                                   RowOf(before_fill[k], after_fill[k][i][3])))
                       # max_time_diff

ExactlyApartIsNotClose ==
    /\ ExactlyApartNotInterpolated
    /\ ExactlyApartNotFilledBetween
    /\ ExactlyApartOutsideWindow

\* A fill step that left absent a row exactly max_time_diff before or
\* after an anchor of its column.
ExactlyApartLeftAbsent ==
    /\ FillDone
    /\ \E k \in DataKeys(before_fill) :
        \E a \in Present(before_fill[k]) :
            \E i \in 1..Len(before_fill[k]) :
                /\ after_fill[k][i] = None
                /\ Abs(Stamp(before_fill["datetime"], i)
                       - Stamp(before_fill["datetime"], a)) = max_time_diff

(***************************************************************************)
(* C23.  Every fill function call for row i of a span with endpoint rows   *)
(* start and end is passed the relative position                           *)
(* (t_i - t_start)/(t_end - t_start), and 0 when t_end = t_start.          *)
(***************************************************************************)
\* The cells the fill step wrote in column k.
Written(k) ==
    {i \in 1..Len(before_fill[k]) :
        before_fill[k][i] = None /\ after_fill[k][i] # None}

\* The relative position a written cell was computed from.
PassedPosition(cell) == cell[Len(cell)]

\* mu is the relative position of row i in the span from row s to row e.
PositionInSpan(mu, i, s, e) ==
    MuIs(mu,
         Stamp(before_fill["datetime"], i) - Stamp(before_fill["datetime"], s),
         Stamp(before_fill["datetime"], e) - Stamp(before_fill["datetime"], s))

RelativePositionPassed ==
    FillDone =>
        \A k \in DataKeys(before_fill) :
            \A i \in Written(k) :
                LET cell == after_fill[k][i]
                    mu == PassedPosition(cell)
                    n == Len(before_fill[k])
                IN  CASE cell[1] = "fill_between" ->
                            PositionInSpan(mu, i, RowOf(before_fill[k], cell[3]),
                                           RowOf(before_fill[k], cell[4]))
                      [] cell[1] = "fill_before" ->
                            \E s \in 1..(i - 1) :
                                PositionInSpan(mu, i, s,
                                               RowOf(before_fill[k], cell[3]))
                      [] cell[1] = "fill_after" ->
                            \E e \in (i + 1)..n :
                                PositionInSpan(mu, i,
                                               RowOf(before_fill[k], cell[3]), e)

\* A cell written between two anchors that bear the same timestamp, in a
\* row that the returned table keeps.
DegenerateSpanWitness ==
    /\ FillDone
    /\ \E k \in DataKeys(before_fill) :
        \E i \in Written(k) :
            /\ after_fill[k][i][1] = "fill_between"
            /\ Stamp(before_fill["datetime"], RowOf(before_fill[k], after_fill[k][i][3]))
                  = Stamp(before_fill["datetime"], RowOf(before_fill[k], after_fill[k][i][4]))
            /\ PassedPosition(after_fill[k][i]) = <<0, 1>>
            /\ after_fill[k][i] \in {data_dict[k][r] : r \in 1..Len(data_dict[k])}

(***************************************************************************)
(* C24.  For a table whose timestamps are non-decreasing in row order,     *)
(* every relative position passed to fill_before, fill_between or          *)
(* fill_after lies in the closed interval [0, 1].                          *)
(***************************************************************************)
\* The fraction mu, of positive denominator, lies in [0, 1].
InUnitInterval(mu) == 0 <= mu[1] /\ mu[1] <= mu[2]

RelativePositionInUnitInterval ==
    (FillDone /\ Chronological(input["datetime"])) =>
        \A k \in DataKeys(before_fill) :
            \A i \in Written(k) :
                InUnitInterval(PassedPosition(after_fill[k][i]))

\* Cells were written with a relative position strictly inside the interval.
InsideUnitIntervalWitness ==
    /\ FillDone
    /\ Chronological(input["datetime"])
    /\ \E k \in DataKeys(before_fill) :
        \E i \in Written(k) :
            LET mu == PassedPosition(after_fill[k][i])
            IN  0 < mu[1] /\ mu[1] < mu[2]

(***************************************************************************)
(* C25.  The fill counter is reset at the start of every impute call: in   *)
(* any sequence of calls on one instance, also after a call that raised    *)
(* part-way, the counter and the reported n_filled_fields of a call are    *)
(* what a fresh instance reports for the table the call received.          *)
(***************************************************************************)
\* What a fresh instance, its counter at 0, makes of the table d.
FreshRun(d) == ImputeRun(d, max_time_diff)

CounterResetEveryCall ==
    outcomes # <<>> =>
        \E fresh \in {FreshRun(input)} :
            /\ n_filled = fresh.n_filled
            /\ Returned => statistics.n_filled_fields
                               = fresh.statistics.n_filled_fields

\* The cells of table d that a fill step wrote.
FilledCells(d) ==
    {<<k, i>> \in DataKeys(d) \X (1..NRows(d)) :
        d[k][i] # None /\ d[k][i][1] \in {"fill_before", "fill_between", "fill_after"}}

\* A second call, made after a call that raised when it had written cells
\* and so left the counter above 0; the second call writes none.
CounterResetWitness ==
    /\ Len(outcomes) = 2
    /\ outcomes[1] # "returned"
    /\ FilledCells(input) # {}
    /\ n_filled = 0

(***************************************************************************)
(* C26.  projections._get_convex_hull: when the hull has vertices at both  *)
(* 0 and 360 degrees, or when its smallest and largest vertex angles are   *)
(* less than 180 degrees apart, no vertex is added: the output is exactly  *)
(* the hull's vertices (wind speed, angle, boat speed) in the order of     *)
(* their angle, with no seam duplicate and no repeated first vertex.       *)
(***************************************************************************)
SeamUntouched ==
    /\ CalledProjections
    /\ hull.vertices # {}
    /\ \/ VertexAt(0) /\ VertexAt(FullTurn)
       \/ HullSpan < HalfTurn

OnlyHullVerticesReturned ==
    SeamUntouched =>
        /\ Len(hull.wa) = Cardinality(hull.vertices)
        /\ Len(hull.ws) = Len(hull.wa)
        /\ Len(hull.bsp) = Len(hull.wa)
        /\ AngleSorted(hull.wa)
        /\ \A i \in hull.vertices :
               \E k \in 1..Len(hull.wa) :
                   hull.wa[k] = slice_.wa[i] /\ RowIsPoint(k, i)

\* A hull with vertices at both 0 and 360 degrees, returned as it is.
BothEndsWitness ==
    /\ SeamUntouched
    /\ VertexAt(0)
    /\ VertexAt(FullTurn)
    /\ Len(hull.wa) >= 3
    /\ hull.wa[1] = 0
    /\ hull.wa[Len(hull.wa)] = FullTurn

\* A hull that spans less than 180 degrees, returned as it is.
NarrowHullWitness ==
    /\ SeamUntouched
    /\ HullSpan < HalfTurn
    /\ Len(hull.wa) >= 3

(***************************************************************************)
(* C27.  projections._get_convex_hull with info supplied: the returned     *)
(* info has one entry for each returned vertex, and entry k is the info of *)
(* the input point that vertex k came from, also when vertex k is the seam *)
(* copy of the vertex at 0 or 360 degrees; only a seam vertex whose boat   *)
(* speed is interpolated carries None.                                     *)
(***************************************************************************)
\* The returned vertex k is an interpolated seam vertex.
Interpolated(k) == Len(hull.ws[k]) = 2

InfoFollowsVertices ==
    (CalledProjections /\ info_ # None) =>
        /\ Len(hull.info) = Len(hull.wa)
        /\ \A k \in 1..Len(hull.wa) :
               IF Interpolated(k)
               THEN /\ hull.info[k] = None
                    /\ ~VertexAt(0)
                    /\ ~VertexAt(FullTurn)
               ELSE \E i \in 1..Len(slice_.wa) :
                        /\ RowIsPoint(k, i)
                        /\ hull.info[k] = info_[i]

\* Interpolated seam vertices at both ends of a hull returned with info.
InfoInterpolatedWitness ==
    /\ CalledProjections
    /\ info_ # None
    /\ Len(hull.wa) = Cardinality(hull.vertices) + 2
    /\ Interpolated(1)
    /\ Interpolated(Len(hull.wa))
    /\ hull.info[1] = None
    /\ hull.info[2] # None

(***************************************************************************)
(* C28.  impute returns normally, raising no exception, for every table    *)
(* that has a datetime column and columns of equal length, whatever the    *)
(* pattern of absent cells and the spacing of the timestamps.              *)
(***************************************************************************)
ImputeAlwaysReturns ==
    (Len(outcomes) >= 1 /\ "datetime" \in DOMAIN input) =>
        outcomes[Len(outcomes)] = "returned"

\* The same for first calls on tables in chronological order in which
\* every timestamp is present and every column holds a value.
ImputeReturnsOnOrderedStamps ==
    (/\ Len(outcomes) = 1
     /\ Chronological(input["datetime"])
     /\ \A i \in 1..NRows(input) : input["datetime"][i] # None
     /\ \A k \in DataKeys(input) : Present(input[k]) # {})
        => outcomes[1] = "returned"

(***************************************************************************)
(* C29.  impute never changes a present value: for a table whose present   *)
(* timestamps never decrease down the rows, every cell, of the datetime    *)
(* column or another, that is present in the input and whose row survives  *)
(* holds the same value in the output; only absent cells are written.      *)
(***************************************************************************)
\* The rows of the input that the deletion after the repair pass kept, and
\* the rows of the filled table that the final deletion kept, in order.
KeptByRepair == Indices(repaired, 1)
KeptByFill == Indices([i \in 1..NRows(after_fill) |->
                          IF i \in RemoveRows(after_fill) THEN None ELSE <<i>>], 1)

\* The input row that the row q of the returned table was.
InputRow(q) == KeptByRepair[KeptByFill[q]]

PresentValuesKept ==
    (Returned /\ Chronological(input["datetime"])) =>
        /\ NRows(data_dict) = Len(KeptByFill)
        /\ \A j \in 1..NRows(input) :
               input["datetime"][j] # None => repaired[j] = input["datetime"][j]
        /\ \A k \in DOMAIN before_fill :
               \A i \in 1..NRows(before_fill) :
                   before_fill[k][i] # None => after_fill[k][i] = before_fill[k][i]
        /\ \A q \in 1..NRows(data_dict) :
               \A k \in DOMAIN data_dict :
                   input[k][InputRow(q)] # None =>
                       data_dict[k][q] = input[k][InputRow(q)]

\* A returned table with a present value in a row that deletions moved up,
\* next to a cell that was filled and a timestamp that was interpolated.
PresentValuesKeptWitness ==
    /\ Returned
    /\ Chronological(input["datetime"])
    /\ statistics.n_filled_fields > 0
    /\ \E j \in 1..NRows(input) : input["datetime"][j] = None /\ repaired[j] # None
    /\ \E q \in 1..NRows(data_dict) :
           /\ InputRow(q) # q
           /\ \E k \in DataKeys(data_dict) :
                  /\ input[k][InputRow(q)] # None
                  /\ data_dict[k][q] = input[k][InputRow(q)]

(***************************************************************************)
(* C30.  During one call each absent cell of a data column is written at   *)
(* most once by the fill step, so n_filled_fields is the number of data    *)
(* cells that were absent before the fill step and present after it.       *)
(***************************************************************************)
CellsWritten ==
    Cardinality({<<k, i>> \in DataKeys(before_fill) \X (1..NRows(before_fill)) :
                    i \in Written(k)})

FilledFieldsAreCellsWritten ==
    FillDone => statistics.n_filled_fields = CellsWritten


====
